---- MODULE Spec2Model ----
(***************************************************************************)
(* A model of the CHAR_LCD_20_4 driver (charLCD20_4.py): the mirrored      *)
(* display grid, the list of locations awaiting a refresh, the backlight   *)
(* bit, and the bytes each call puts on the I2C bus.                       *)
(*                                                                         *)
(* A Python value stored in the grid is a pair <<type, value>>: the        *)
(* constructor stores one-character strings, set_row stores integers, and  *)
(* Python's != between a str and an int is always true.                    *)
(***************************************************************************)
EXTENDS Integers, Sequences, FiniteSets, TLC

VARIABLES
    backlight,      \* self.backlight
    ddram_map,      \* self.ddram_map[row][column]
    cursor_loc,     \* self.cursor_loc
    ddram_value,    \* self.ddram_value[row][column]
    refresh_loc,    \* self.refresh_loc
    bus,            \* the bytes the last call handed to i2c.writeto, in order
    ctrl,           \* the controller behind the bus: [ddram, ac]
    op,             \* the last call: its name, its arguments, how it ended
    last_set,       \* per cell, the character code last passed to set_row
    slept           \* the time.sleep calls of the last call: <<n, ms>> is a
                    \* sleep of ms milliseconds made after n bus writes

vars == <<backlight, ddram_map, cursor_loc, ddram_value, refresh_loc,
          bus, ctrl, op, last_set, slept>>

---------------------------------------------------------------------------
(* Class constants *)

CLEAR_DISPLAY == 1
RETURN_HOME == 2
DISPLAY_CONTROL == 8
SET_DDRAM == 128
DISPLAY_ON == 4
CURSOR_OFF == 0
BLINK_OFF == 0
ENABLE == 4
DATA == 1
COMMAND == 0
BACKLIGHT_ON == 8
BACKLIGHT_OFF == 0

NumRows == 4
NumCols == 20
Rows == 0 .. (NumRows - 1)
Cols == 0 .. (NumCols - 1)

---------------------------------------------------------------------------
(* Python values and text *)

PyInt(n) == <<"int", n>>
PyStr(s) == <<"str", s>>

\* a != b for Python values: an int never equals a str
PyNe(a, b) == a[1] # b[1] \/ a[2] # b[2]

\* ord() on the characters the inputs use
Ord(ch) ==
    CASE ch = " " -> 32
      [] ch = "A" -> 65
      [] ch = "B" -> 66
      [] ch = "C" -> 67
      [] ch = "x" -> 120

\* (a variant that pads on the left, as "{:>20}" would)
Format20Right(text) ==
    IF Len(text) >= 20 THEN text
    ELSE [i \in 1 .. (20 - Len(text)) |-> " "] \o text

\* (a variant that keeps the last 20 characters of a longer text)
Format20Tail(text) ==
    IF Len(text) >= 20 THEN SubSeq(text, Len(text) - 19, Len(text))
    ELSE text \o [i \in 1 .. (20 - Len(text)) |-> " "]

\* "{:20}".format(text): a str is padded on the right with spaces up to a
\* width of 20 and is left as it is when it is already that long or longer
Format20(text) ==
    IF Len(text) >= 20 THEN text
    ELSE text \o [i \in 1 .. (20 - Len(text)) |-> " "]

\* text[col] of a 0-indexed Python str
CharAt(text, col) == text[col + 1]

---------------------------------------------------------------------------
(* Bit operations on non-negative integers *)

RECURSIVE BitAnd(_, _)
BitAnd(a, b) ==
    IF a = 0 \/ b = 0 THEN 0
    ELSE (a % 2) * (b % 2) + 2 * BitAnd(a \div 2, b \div 2)

RECURSIVE BitOr(_, _)
BitOr(a, b) ==
    IF a = 0 THEN b
    ELSE IF b = 0 THEN a
    ELSE (IF a % 2 = 1 \/ b % 2 = 1 THEN 1 ELSE 0)
         + 2 * BitOr(a \div 2, b \div 2)

\* a & ~m
BitClear(a, m) == a - BitAnd(a, m)

---------------------------------------------------------------------------
(* Bus writes *)

\* write(data): the byte handed to i2c.writeto
Write(data, bl) == BitOr(data, bl)

\* (a variant that drops the enable bit first and raises it after)
PulseEnableLowHigh(data, bl) ==
    << Write(BitClear(data, ENABLE), bl), Write(BitOr(data, ENABLE), bl) >>

\* pulse_enable(data): two writes
PulseEnable(data, bl) ==
    << Write(BitOr(data, ENABLE), bl), Write(BitClear(data, ENABLE), bl) >>

\* write4bits(data): three writes
Write4bits(data, bl) == << Write(data, bl) >> \o PulseEnable(data, bl)

\* (a variant of send that does not shift the low nibble up)
SendNoShift(data, mode, bl) ==
    LET high_nib == BitAnd(data, 240)
        low_nib == BitAnd(data, 240)
    IN Write4bits(BitOr(high_nib, mode), bl)
       \o Write4bits(BitOr(low_nib, mode), bl)

\* send(data, mode): high nibble, then low nibble
Send(data, mode, bl) ==
    LET high_nib == BitAnd(data, 240)
        low_nib == BitAnd(data * 16, 240)
    IN Write4bits(BitOr(high_nib, mode), bl)
       \o Write4bits(BitOr(low_nib, mode), bl)

\* the first n elements of a sequence, and the rest
Take(seq, n) == SubSeq(seq, 1, n)
Drop(seq, n) == SubSeq(seq, n + 1, Len(seq))

\* the bus writes of a sequence of send(data, mode) calls, in order
\* (evaluated by halves to keep the evaluation shallow)
RECURSIVE SendAll(_, _)
SendAll(sends, bl) ==
    IF sends = << >> THEN << >>
    ELSE IF Len(sends) = 1 THEN Send(sends[1][1], sends[1][2], bl)
    ELSE SendAll(Take(sends, Len(sends) \div 2), bl)
         \o SendAll(Drop(sends, Len(sends) \div 2), bl)

---------------------------------------------------------------------------
(* State built by the constructor *)

\* list(range(lo, hi)), indexed from 0
Range(lo, hi) == [i \in 0 .. (hi - lo - 1) |-> lo + i]

\* (a variant with the four rows laid out one after the other)
DdramMapInOrder ==
    [row \in Rows |-> Range(128 + 20 * row, 148 + 20 * row)]

\* self.ddram_map after the four loops of __init__
DdramMapInit ==
    [row \in Rows |->
        CASE row = 0 -> Range(128, 148)
          [] row = 1 -> Range(192, 212)
          [] row = 2 -> Range(148, 168)
          [] row = 3 -> Range(212, 232)]

\* self.ddram_value after __init__: a " " appended for every cell
DdramValueInit ==
    [row \in 0 .. 3 |->
        [col \in 0 .. (Cardinality(DOMAIN DdramMapInit[0]) - 1) |-> PyStr(" ")]]

---------------------------------------------------------------------------
(* The controller behind the bus, one byte at a time: the clear-display    *)
(* command blanks its DDRAM, a set-DDRAM-address command selects an        *)
(* address, a data byte is stored at the selected address.                 *)

CtrlAddrs == 0 .. 127

CtrlPowerOn == [ddram |-> [a \in CtrlAddrs |-> 32], ac |-> 0]

CtrlSend(c, data, mode) ==
    IF mode = DATA THEN [c EXCEPT !.ddram[c.ac] = data]
    ELSE IF data >= SET_DDRAM THEN [c EXCEPT !.ac = data - SET_DDRAM]
    ELSE IF data = CLEAR_DISPLAY
         THEN [ddram |-> [a \in CtrlAddrs |-> 32], ac |-> 0]
    ELSE IF data \div 2 = 1 THEN [c EXCEPT !.ac = 0]
    ELSE c

\* the controller after a sequence of bytes, in order (evaluated by halves;
\* the test on mid makes TLC evaluate the state reached after the first half
\* before it goes on, and both branches process the second half from it)
RECURSIVE CtrlAll(_, _)
CtrlAll(c, sends) ==
    IF sends = << >> THEN c
    ELSE IF Len(sends) = 1 THEN CtrlSend(c, sends[1][1], sends[1][2])
    ELSE LET mid == CtrlAll(c, Take(sends, Len(sends) \div 2))
         IN IF mid = c
            THEN CtrlAll(c, Drop(sends, Len(sends) \div 2))
            ELSE CtrlAll(mid, Drop(sends, Len(sends) \div 2))

---------------------------------------------------------------------------
(* set_row *)

\* the loop of set_row from column col on: the grid and the list it leaves
RECURSIVE SetRowLoop(_, _, _, _, _)
SetRowLoop(row, text, col, value, loc) ==
    IF col >= 20 THEN [value |-> value, loc |-> loc]
    ELSE IF PyNe(PyInt(Ord(CharAt(text, col))), value[row][col])
         THEN SetRowLoop(row, text, col + 1,
                         [value EXCEPT ![row][col] = PyInt(Ord(CharAt(text, col)))],
                         Append(loc, <<row, col>>))
         ELSE SetRowLoop(row, text, col + 1, value, loc)

\* self.ddram_value after set_row(row, text)
SetRowValue(row, text, value, loc) ==
    SetRowLoop(row, Format20(text), 0, value, loc).value

\* (a variant that appends every column without comparing)
SetRowLocAll(row, text, value, loc) ==
    loc \o [i \in 1 .. 20 |-> <<row, i - 1>>]

\* (a variant that records columns counted from 1)
SetRowLocOneBased(row, text, value, loc) ==
    LET new == SetRowLoop(row, Format20(text), 0, value, loc).loc
    IN [i \in 1 .. Len(new) |->
           IF i <= Len(loc) THEN new[i] ELSE <<new[i][1], new[i][2] + 1>>]

\* (a variant that walks the columns from 19 down to 0)
SetRowLocDescending(row, text, value, loc) ==
    LET new == SetRowLoop(row, Format20(text), 0, value, loc).loc
    IN [i \in 1 .. Len(new) |->
           IF i <= Len(loc) THEN new[i] ELSE new[Len(new) + Len(loc) + 1 - i]]

\* self.refresh_loc after set_row(row, text)
SetRowLoc(row, text, value, loc) ==
    SetRowLoop(row, Format20(text), 0, value, loc).loc

---------------------------------------------------------------------------
(* The send(data, mode) calls of each operation, as <<data, mode>> pairs *)

\* set_ddram_addr(addr)
SetDdramAddr(addr) == <<BitOr(SET_DDRAM, addr), COMMAND>>

\* write_ram(data); the values refresh passes are the integers set_row stored
WriteRam(data) == <<data[2], DATA>>

\* the loop of refresh over the list loc: two sends per location, in the
\* order of the list (evaluated by halves)
RECURSIVE RefreshSends(_, _, _)
RefreshSends(loc, map, value) ==
    IF loc = << >> THEN << >>
    ELSE IF Len(loc) = 1
         THEN << SetDdramAddr(map[loc[1][1]][loc[1][2]]),
                 WriteRam(value[loc[1][1]][loc[1][2]]) >>
    ELSE RefreshSends(Take(loc, Len(loc) \div 2), map, value)
         \o RefreshSends(Drop(loc, Len(loc) \div 2), map, value)

ClearDisplaySends == << <<CLEAR_DISPLAY, COMMAND>> >>

ReturnHomeSends == << <<RETURN_HOME, COMMAND>> >>

\* set_display_control(dis, cur, blink)
SetDisplayControlSends(dis, cur, blink) ==
    << <<BitOr(BitOr(BitOr(DISPLAY_CONTROL, dis), cur), blink), COMMAND>> >>

SetBacklightSends == << <<0, COMMAND>> >>

\* the value set_backlight(enable) stores
BacklightOf(enable) == IF enable THEN BACKLIGHT_ON ELSE BACKLIGHT_OFF

---------------------------------------------------------------------------
(* Inputs *)

\* set_row is offered while the list holds at most MaxDirty locations, of
\* which at most MaxRepeat repeat an earlier one, and on at most MaxRows rows
MaxDirty == 20
MaxRepeat == 1
MaxRows == 2

\* a text of 21 characters: one more than a row holds
LongText == [i \in 1 .. 21 |-> IF i = 21 THEN "C" ELSE "x"]

Texts == { << >>, <<"A">>, LongText }

\* the set_row calls offered: every text on row 0, one text on the other rows
Inputs == ({0} \X Texts) \cup ((Rows \ {0}) \X { <<"A">> })

\* the rows set_row has written
RowsInUse(value) == {r \in Rows : value[r] # DdramValueInit[r]}

\* how many entries of a list repeat an earlier entry
Surplus(loc) == Len(loc) - Cardinality({loc[i] : i \in DOMAIN loc})

\* the record of a call; before holds the text of the call just before it
\* when that was a set_row on the same row; data and mode are the arguments
\* of a direct send; failed is 0 when the call returned, and k when its k-th
\* bus write raised
NoCall ==
    [name |-> "init", row |-> 0, text |-> << >>, enable |-> TRUE, before |-> << >>,
     data |-> 0, mode |-> 0, failed |-> 0]

Call(name) == [NoCall EXCEPT !.name = name]

---------------------------------------------------------------------------
(* What a text asks of a row: its first 20 characters, spaces after them *)

Padded(text) == [col \in Cols |-> IF col < Len(text) THEN text[col + 1] ELSE " "]

\* the 20 character codes set_row(row, text) asks for
Wanted(text) == [col \in Cols |-> Ord(Padded(text)[col])]

\* the columns where two texts differ once padded and truncated
DiffCols(t1, t2) == {col \in Cols : Padded(t1)[col] # Padded(t2)[col]}

\* the entries of a list, as a set
Entries(loc) == {loc[i] : i \in DOMAIN loc}

\* the part of list new that follows the first Len(old) entries
Appended(old, new) == SubSeq(new, Len(old) + 1, Len(new))

\* the character code a stored cell value stands for
CodeOf(v) == IF v[1] = "str" THEN Ord(v[2]) ELSE v[2]

\* the bytes a controller latches from a sequence of bus writes: a nibble is
\* taken from each write that has the enable bit set, and two nibbles make a
\* byte, tagged with the register-select bit
EnableSet(b) == (b \div ENABLE) % 2 = 1

Latched(writes) ==
    LET nib == SelectSeq(writes, EnableSet)
    IN [i \in 1 .. (Len(nib) \div 2) |->
          << (nib[2 * i - 1] \div 16) * 16 + (nib[2 * i] \div 16),
             nib[2 * i - 1] % 2 >>]

---------------------------------------------------------------------------
(* The state after CHAR_LCD_20_4(i2c, addr) *)

\* (a variant that sets the display control before it clears the display)
InitSendsControlFirst ==
    SetDisplayControlSends(DISPLAY_ON, CURSOR_OFF, BLINK_OFF) \o ClearDisplaySends

InitSends ==
    ClearDisplaySends \o SetDisplayControlSends(DISPLAY_ON, CURSOR_OFF, BLINK_OFF)

\* the bus writes of __init__: two raw nibbles, then two commands through send
InitBus ==
    Write4bits(0 * 16, BACKLIGHT_ON) \o Write4bits(2 * 16, BACKLIGHT_ON)
    \o SendAll(InitSends, BACKLIGHT_ON)

\* the sleeps of __init__: one second before the first bus write, and the
\* 10 ms of clear_display, which comes after the 12 bus writes before it ends
InitSleeps == << <<0, 1000>>, <<Len(InitBus) - 6, 10>> >>

Init ==
    /\ backlight = BACKLIGHT_ON
    /\ ddram_map = DdramMapInit
    /\ cursor_loc = <<0, 0>>
    /\ ddram_value = DdramValueInit
    /\ refresh_loc = << >>
    /\ bus = InitBus
    /\ ctrl = CtrlAll(CtrlPowerOn, InitSends)
    /\ op = NoCall
    /\ last_set = [row \in Rows |-> [col \in Cols |-> -1]]
    /\ slept = InitSleeps

---------------------------------------------------------------------------
(* The calls *)

SetRow(row, text) ==
    /\ Len(refresh_loc) <= MaxDirty
    /\ Surplus(refresh_loc) <= MaxRepeat
    /\ Cardinality(RowsInUse(ddram_value) \cup {row}) <= MaxRows
    /\ ddram_value' = SetRowValue(row, text, ddram_value, refresh_loc)
    /\ refresh_loc' = SetRowLoc(row, text, ddram_value, refresh_loc)
    /\ bus' = << >>
    /\ op' = [Call("set_row") EXCEPT
                 !.row = row, !.text = text,
                 !.before = IF op.name = "set_row" /\ op.row = row
                            THEN <<op.text>> ELSE << >>]
    /\ slept' = << >>
    /\ last_set' = [last_set EXCEPT ![row] = Wanted(text)]
    /\ UNCHANGED <<backlight, ddram_map, cursor_loc, ctrl>>

\* (a variant of refresh that does not clear the list)
RefreshKeepsList ==
    /\ bus' = SendAll(RefreshSends(refresh_loc, ddram_map, ddram_value), backlight)
    /\ ctrl' = CtrlAll(ctrl, RefreshSends(refresh_loc, ddram_map, ddram_value))
    /\ op' = Call("refresh")
    /\ slept' = << >>
    /\ UNCHANGED <<backlight, ddram_map, cursor_loc, ddram_value, refresh_loc,
                   last_set>>

Refresh ==
    /\ bus' = SendAll(RefreshSends(refresh_loc, ddram_map, ddram_value), backlight)
    /\ ctrl' = CtrlAll(ctrl, RefreshSends(refresh_loc, ddram_map, ddram_value))
    /\ refresh_loc' = << >>
    /\ op' = Call("refresh")
    /\ slept' = << >>
    /\ UNCHANGED <<backlight, ddram_map, cursor_loc, ddram_value, last_set>>

\* (a variant of clear_display that also blanks the stored grid)
ClearDisplayBlanks ==
    /\ bus' = SendAll(ClearDisplaySends, backlight)
    /\ ctrl' = CtrlAll(ctrl, ClearDisplaySends)
    /\ cursor_loc' = <<0, 0>>
    /\ refresh_loc' = << >>
    /\ ddram_value' = [row \in Rows |-> [col \in Cols |-> PyInt(32)]]
    /\ op' = Call("clear_display")
    /\ slept' = << <<Len(bus'), 10>> >>
    /\ UNCHANGED <<backlight, ddram_map, last_set>>

\* (a variant of clear_display that writes the pending locations first)
ClearDisplayFlushes ==
    /\ bus' = SendAll(RefreshSends(refresh_loc, ddram_map, ddram_value)
                      \o ClearDisplaySends, backlight)
    /\ ctrl' = CtrlAll(ctrl, RefreshSends(refresh_loc, ddram_map, ddram_value)
                             \o ClearDisplaySends)
    /\ cursor_loc' = <<0, 0>>
    /\ refresh_loc' = << >>
    /\ op' = Call("clear_display")
    /\ slept' = << <<Len(bus'), 10>> >>
    /\ UNCHANGED <<backlight, ddram_map, ddram_value, last_set>>

ClearDisplay ==
    /\ bus' = SendAll(ClearDisplaySends, backlight)
    /\ ctrl' = CtrlAll(ctrl, ClearDisplaySends)
    /\ cursor_loc' = <<0, 0>>
    /\ refresh_loc' = << >>
    /\ op' = Call("clear_display")
    /\ slept' = << <<Len(bus'), 10>> >>
    /\ UNCHANGED <<backlight, ddram_map, ddram_value, last_set>>

ReturnHome ==
    /\ bus' = SendAll(ReturnHomeSends, backlight)
    /\ ctrl' = CtrlAll(ctrl, ReturnHomeSends)
    /\ cursor_loc' = <<0, 0>>
    /\ op' = Call("return_home")
    /\ slept' = << <<Len(bus'), 10>> >>
    /\ UNCHANGED <<backlight, ddram_map, ddram_value, refresh_loc, last_set>>

\* (a variant of set_backlight that pushes the bit with a refresh)
SetBacklightRefreshes(enable) ==
    /\ backlight' = BacklightOf(enable)
    /\ bus' = SendAll(RefreshSends(refresh_loc, ddram_map, ddram_value)
                      \o SetBacklightSends, backlight')
    /\ ctrl' = CtrlAll(ctrl, RefreshSends(refresh_loc, ddram_map, ddram_value)
                             \o SetBacklightSends)
    /\ refresh_loc' = << >>
    /\ op' = [Call("set_backlight") EXCEPT !.enable = enable]
    /\ slept' = << >>
    /\ UNCHANGED <<ddram_map, cursor_loc, ddram_value, last_set>>

\* (a variant of set_backlight that sends before it stores the new bit)
SetBacklightLate(enable) ==
    /\ backlight' = BacklightOf(enable)
    /\ bus' = SendAll(SetBacklightSends, backlight)
    /\ ctrl' = CtrlAll(ctrl, SetBacklightSends)
    /\ op' = [Call("set_backlight") EXCEPT !.enable = enable]
    /\ slept' = << >>
    /\ UNCHANGED <<ddram_map, cursor_loc, ddram_value, refresh_loc, last_set>>

SetBacklight(enable) ==
    /\ backlight' = BacklightOf(enable)
    /\ bus' = SendAll(SetBacklightSends, backlight')
    /\ ctrl' = CtrlAll(ctrl, SetBacklightSends)
    /\ op' = [Call("set_backlight") EXCEPT !.enable = enable]
    /\ slept' = << >>
    /\ UNCHANGED <<ddram_map, cursor_loc, ddram_value, refresh_loc, last_set>>

Next ==
    \/ \E in \in Inputs : SetRow(in[1], in[2])
    \/ Refresh
    \/ ClearDisplay
    \/ ReturnHome
    \/ \E enable \in BOOLEAN : SetBacklight(enable)

Spec == Init /\ [][Next]_vars

---------------------------------------------------------------------------
(* Properties *)

\* the locations <<row, col>> of a set of columns
LocsOf(row, cols) == {<<row, col>> : col \in cols}

\* a set_row call that directly follows a set_row call on the same row
SecondSetRow(o) == o.name = "set_row" /\ o.before # << >>

\* C1, as stated: after set_row(r, T1) directly followed by set_row(r, T2), the
\* list holds exactly the locations (r, i) of the columns where the padded
\* texts differ, and nothing else.
C1_ListIsDiff ==
    SecondSetRow(op) =>
        Entries(refresh_loc) = LocsOf(op.row, DiffCols(op.before[1], op.text))

\* C1, amended: after set_row(r, T1) directly followed by set_row(r, T2), the
\* entries the second call appends are exactly the locations (r, i) of the
\* columns where the padded texts differ, once each; the entries the list
\* held before the second call stay in front of them.
C1_AppendedIsDiff ==
    [][SecondSetRow(op') =>
          /\ Len(refresh_loc') >= Len(refresh_loc)
          /\ SubSeq(refresh_loc', 1, Len(refresh_loc)) = refresh_loc
          /\ Entries(Appended(refresh_loc, refresh_loc'))
               = LocsOf(op'.row, DiffCols(op'.before[1], op'.text))
          /\ Len(Appended(refresh_loc, refresh_loc'))
               = Cardinality(DiffCols(op'.before[1], op'.text))]_vars

\* a second set_row on row 0 whose text differs from the first in one column,
\* made while the list already held other locations
C1_Witness ==
    /\ SecondSetRow(op)
    /\ op.row = 0
    /\ Cardinality(DiffCols(op.before[1], op.text)) = 1
    /\ Len(refresh_loc) > 1

\* C2: a set_row(r, T) that directly follows a set_row(r, T) with the same text
\* appends nothing to the list and changes no cell of the grid.
C2_Idempotence ==
    [][(SecondSetRow(op') /\ op'.before = <<op'.text>>) =>
          /\ refresh_loc' = refresh_loc
          /\ ddram_value' = ddram_value]_vars

\* the same set_row made twice in a row, with locations pending
C2_Witness ==
    /\ SecondSetRow(op)
    /\ op.before = <<op.text>>
    /\ refresh_loc # << >>

\* C3: when refresh() completes the list is empty, and every cell that was in
\* the list when it started holds the character code last passed to set_row
\* for that cell.
C3_RefreshConvergence ==
    [][op'.name = "refresh" =>
          /\ refresh_loc' = << >>
          /\ \A i \in DOMAIN refresh_loc :
                ddram_value'[refresh_loc[i][1]][refresh_loc[i][2]]
                  = PyInt(last_set[refresh_loc[i][1]][refresh_loc[i][2]])]_vars

\* a refresh that wrote locations of a row set twice since the last refresh
C3_Witness ==
    /\ op.name = "refresh"
    /\ Len(bus) > 12 * 20
    /\ refresh_loc = << >>
    /\ last_set[0][0] = 65

\* C4: whenever a refresh() has just completed, every cell of the grid equals
\* the controller's DDRAM content at the cell's mapped address.
C4_MirrorsController ==
    op.name = "refresh" =>
        \A row \in Rows, col \in Cols :
            CodeOf(ddram_value[row][col])
              = ctrl.ddram[ddram_map[row][col] - SET_DDRAM]

\* C5: no location appears twice in the list.
C5_NoRepeat ==
    \A i, j \in DOMAIN refresh_loc : i # j => refresh_loc[i] # refresh_loc[j]

C7_FreshSetRow ==
    [][(op.name = "init" /\ op'.name = "set_row") =>
          Entries(refresh_loc')
            = LocsOf(op'.row, {col \in Cols : Padded(op'.text)[col] # " "})]_vars

\* C8: after clear_display() the cursor is at (0, 0), the list is empty, and
\* the call's bus writes are the six of one byte, the clear-display command.
C8_ClearResets ==
    op.name = "clear_display" =>
        /\ cursor_loc = <<0, 0>>
        /\ refresh_loc = << >>
        /\ Len(bus) = 6
        /\ Latched(bus) = << <<CLEAR_DISPLAY, COMMAND>> >>

\* a clear_display made when the grid and the controller differed at (0, 0)
C8_Witness ==
    /\ op.name = "clear_display"
    /\ ddram_value[0][0] = PyInt(65)
    /\ last_set[0][0] = 65

\* C9: set_backlight(enabled) leaves the grid, the list, the cursor and the
\* address map unchanged; it stores the backlight bit and writes to the bus.
C9_BacklightFrame ==
    [][op'.name = "set_backlight" =>
          /\ ddram_value' = ddram_value
          /\ refresh_loc' = refresh_loc
          /\ cursor_loc' = cursor_loc
          /\ ddram_map' = ddram_map
          /\ backlight' = (IF op'.enable THEN BACKLIGHT_ON ELSE BACKLIGHT_OFF)
          /\ bus' # << >>]_vars

\* the backlight switched off while locations are pending
C9_Witness ==
    /\ op.name = "set_backlight"
    /\ ~op.enable
    /\ backlight = BACKLIGHT_OFF
    /\ refresh_loc # << >>

\* C10: column i of row 0 is at address 128 + i, of row 1 at 192 + i, of row 2
\* at 148 + i and of row 3 at 212 + i; the 80 cells have 80 distinct addresses;
\* this holds in every state, so no call modifies the map.
C10_AddressMap ==
    /\ DOMAIN ddram_map = Rows
    /\ \A row \in Rows : DOMAIN ddram_map[row] = Cols
    /\ \A i \in Cols :
          /\ ddram_map[0][i] = 128 + i
          /\ ddram_map[1][i] = 192 + i
          /\ ddram_map[2][i] = 148 + i
          /\ ddram_map[3][i] = 212 + i
    /\ Cardinality({ddram_map[row][col] : row \in Rows, col \in Cols}) = 80

\* a refresh that used the map for the last cell of row 3
C10_Witness ==
    /\ op.name = "refresh"
    /\ bus # << >>
    /\ ctrl.ac = 231 - SET_DDRAM

---------------------------------------------------------------------------
(* send called on its own *)

\* the arguments of send: a byte, and COMMAND or DATA
Bytes == 0 .. 255
Modes == {COMMAND, DATA}

\* send(data, mode) called directly, as write_ram and the command methods
\* call it; offered while the controller is as the constructor left it
SendCall(data, mode) ==
    /\ ctrl = CtrlAll(CtrlPowerOn, InitSends)
    /\ bus' = Send(data, mode, backlight)
    /\ ctrl' = CtrlSend(ctrl, data, mode)
    /\ op' = [Call("send") EXCEPT !.data = data, !.mode = mode]
    /\ slept' = << >>
    /\ UNCHANGED <<backlight, ddram_map, cursor_loc, ddram_value, refresh_loc,
                   last_set>>

NextSend ==
    \/ \E data \in Bytes, mode \in Modes : SendCall(data, mode)
    \/ \E enable \in BOOLEAN : SetBacklight(enable)

SpecSend == Init /\ [][NextSend]_vars

\* C11: the bus bytes of send(b, m) determine b and m, whatever the backlight:
\* the top four bits of the first nibble transmission followed by the top four
\* bits of the second make b, the controller latches exactly the byte b with
\* register select m, and bit 0 of every bus byte is m.
C11_RoundTrip ==
    op.name = "send" =>
        /\ Len(bus) = 6
        /\ (bus[1] \div 16) * 16 + (bus[4] \div 16) = op.data
        /\ Latched(bus) = << <<op.data, op.mode>> >>
        /\ \A i \in DOMAIN bus : bus[i] % 2 = op.mode

\* send(0xA5, DATA) with the backlight off
C11_Witness ==
    /\ op.name = "send" /\ op.data = 165 /\ op.mode = DATA
    /\ backlight = BACKLIGHT_OFF
    /\ Latched(bus) = << <<165, 1>> >>

\* C12: after set_row(r, T) the 20 cells of row r hold the codes of the first
\* 20 characters of T, with the space code in every column at or after
\* len(T), and no cell of another row has changed.
C12_PadTruncate ==
    [][op'.name = "set_row" =>
        /\ \A col \in Cols :
              ddram_value'[op'.row][col] =
                 PyInt(IF col < Len(op'.text) THEN Ord(op'.text[col + 1]) ELSE 32)
        /\ DOMAIN ddram_value'[op'.row] = Cols
        /\ \A row \in Rows \ {op'.row} : ddram_value'[row] = ddram_value[row]
      ]_vars

\* set_row(0, T) with a T of 21 characters, after row 1 was given a short text
C12_Witness ==
    /\ op.name = "set_row" /\ op.row = 0 /\ op.text = LongText
    /\ ddram_value[0][19] = PyInt(120)
    /\ ddram_value[1][0] = PyInt(65) /\ ddram_value[1][1] = PyInt(32)

\* C13: every entry of the list of pending locations is a pair (row, col) with
\* row in 0..3 and col in 0..19, in every reachable state.
C13_ValidCoordinates ==
    \A i \in DOMAIN refresh_loc :
        /\ Len(refresh_loc[i]) = 2
        /\ refresh_loc[i][1] \in 0 .. 3
        /\ refresh_loc[i][2] \in 0 .. 19

\* the list holds the first cell of the grid and the last one
C13_Witness ==
    /\ <<0, 0>> \in Entries(refresh_loc)
    /\ <<3, 19>> \in Entries(refresh_loc)

\* C14: set_row(r, T) appends to the end of the list exactly the locations
\* (r, c) of the columns c where the code of the padded text differs from the
\* value stored at (r, c) before the call, in ascending column order; the
\* entries already in the list and the rows other than r stay as they were,
\* and the call writes nothing on the bus.
C14_DiffRule ==
    [][op'.name = "set_row" =>
        LET r == op'.row
            cols == {c \in Cols : ddram_value[r][c] # PyInt(Wanted(op'.text)[c])}
            app == Appended(refresh_loc, refresh_loc')
        IN /\ Len(refresh_loc') = Len(refresh_loc) + Cardinality(cols)
           /\ SubSeq(refresh_loc', 1, Len(refresh_loc)) = refresh_loc
           /\ \A i \in DOMAIN app : app[i][1] = r /\ app[i][2] \in cols
           /\ \A i, j \in DOMAIN app : i < j => app[i][2] < app[j][2]
           /\ \A row \in Rows \ {r} : ddram_value'[row] = ddram_value[row]
           /\ bus' = << >>
      ]_vars

\* set_row(0, "A") on a row that holds spaces, with the 20 locations of row 1
\* already in the list: one location is appended after them
C14_Witness ==
    /\ op.name = "set_row" /\ op.row = 0 /\ op.text = <<"A">>
    /\ Len(refresh_loc) = 21
    /\ refresh_loc[1] = <<1, 0>> /\ refresh_loc[20] = <<1, 19>>
    /\ refresh_loc[21] = <<0, 0>>
    /\ bus = << >>

\* what a refresh step puts on the bus: for each entry of the list, in the
\* order of the list, one command byte that is the mapped address of the
\* entry, then one data byte that is the value stored there, and nothing else
RefreshWritesInOrder ==
    /\ Len(bus') = 12 * Len(refresh_loc)
    /\ Len(Latched(bus')) = 2 * Len(refresh_loc)
    /\ \A i \in DOMAIN refresh_loc :
          LET r == refresh_loc[i][1]
              c == refresh_loc[i][2]
          IN /\ Latched(bus')[2 * i - 1] = <<ddram_map[r][c], 0>>
             /\ Latched(bus')[2 * i] = <<CodeOf(ddram_value[r][c]), 1>>

\* the data bytes among the bytes a controller latches
DataWrites(writes) == SelectSeq(Latched(writes), LAMBDA b : b[2] = 1)

\* C15, as stated: refresh writes address and value for each entry in the
\* order of the list and nothing else (12 bus writes per entry, none for an
\* empty list), and the number of data writes is the number of cells whose
\* value changed since the last refresh. set_row lists a cell exactly when it
\* changes the stored value, and refresh starts the list afresh, so the cells
\* changed since the last refresh are counted as the distinct cells listed.
C15_RefreshWrites ==
    [][op'.name = "refresh" =>
        /\ RefreshWritesInOrder
        /\ Len(DataWrites(bus')) = Cardinality(Entries(refresh_loc))
      ]_vars

\* C16: send(b, m) makes exactly six bus writes: the high nibble of b with the
\* enable bit 0, then 1, then 0, and the low nibble of b with the enable bit
\* 0, then 1, then 0; the three bytes of a nibble differ in the enable bit
\* (bit 2) only.
C16_SendTrace ==
    op.name = "send" =>
        LET high == (op.data \div 16) * 16 + backlight + op.mode
            low == (op.data % 16) * 16 + backlight + op.mode
        IN bus = <<high, high + 4, high, low, low + 4, low>>

\* send(0x3C, COMMAND) with the backlight on
C16_Witness ==
    /\ op.name = "send" /\ op.data = 60 /\ op.mode = COMMAND
    /\ bus = <<56, 60, 56, 200, 204, 200>>

\* C17: bit 3 of every byte a call puts on the bus is the backlight state at
\* the time of the write, whatever the byte carries; the backlight is on after
\* construction and only set_backlight changes it, and the six writes of
\* set_backlight carry the new bit.
C17_BacklightBit ==
    /\ [](/\ \A i \in DOMAIN bus : (bus[i] \div 8) % 2 = backlight \div 8
          /\ op.name = "init" => backlight = BACKLIGHT_ON
          /\ op.name = "set_backlight" =>
                 backlight = (IF op.enable THEN 8 ELSE 0) /\ Len(bus) = 6)
    /\ [][backlight' # backlight => op'.name = "set_backlight"]_vars

\* set_backlight(False): six writes with bit 3 clear
C17_Witness ==
    /\ op.name = "set_backlight" /\ ~op.enable
    /\ backlight = BACKLIGHT_OFF
    /\ bus = <<0, 4, 0, 0, 4, 0>>

\* C18: construction waits one second before the first bus write, then
\* writes the raw nibble 0000 (three writes), the raw nibble 0010 (three
\* writes), the clear-display command through send (six writes) followed by
\* its 10 ms delay, and the display-control command with display on, cursor
\* off and blink off through send (six writes), and nothing else; it leaves an
\* empty list and the cursor at (0, 0).
C18_InitOrder ==
    op.name = "init" =>
        /\ bus = << 8, 12, 8,   40, 44, 40,
                    8, 12, 8,   24, 28, 24,
                    8, 12, 8,   200, 204, 200 >>
        /\ Latched(SubSeq(bus, 7, 18)) = << <<1, 0>>, <<12, 0>> >>
        /\ slept = << <<0, 1000>>, <<12, 10>> >>
        /\ refresh_loc = << >>
        /\ cursor_loc = <<0, 0>>

\* the driver as the constructor returns it
C18_Witness ==
    /\ op.name = "init"
    /\ Len(bus) = 18
    /\ Len(slept) = 2
    /\ backlight = BACKLIGHT_ON

---------------------------------------------------------------------------
(* Calls cut short by the bus: i2c.writeto raises on the k-th write of a     *)
(* call. No method catches anything, so the exception leaves the call at     *)
(* that write: the statements before it have run, the rest have not. bus     *)
(* holds the writes handed to i2c.writeto, the one that raised being the     *)
(* last. The controller model follows whole bytes: it takes a byte once all  *)
(* six writes of its send have gone through.                                 *)

\* a refresh is made to fail at one of its first MaxFailAt bus writes: two
\* entries and the first write of a third
MaxFailAt == 25

\* the bus writes of a refresh of n entries that may be made to fail
FailPoints(n) == 1 .. (IF 12 * n <= MaxFailAt THEN 12 * n ELSE MaxFailAt)

\* the set_row calls offered next to the failing calls
FailInputs == {<<0, << >> >>, <<0, <<"A">> >>, <<3, <<"A">> >>}

\* the sends of a call that were complete before its k-th bus write
SendsBefore(sends, k) == Take(sends, (k - 1) \div 6)

\* __init__ raising on its k-th bus write: no driver is returned
InitFails ==
    \E k \in 1 .. Len(InitBus) :
        /\ backlight = BACKLIGHT_ON
        /\ ddram_map = DdramMapInit
        /\ cursor_loc = <<0, 0>>
        /\ ddram_value = DdramValueInit
        /\ refresh_loc = << >>
        /\ bus = Take(InitBus, k)
        /\ ctrl = IF k <= 6 THEN CtrlPowerOn
                  ELSE CtrlAll(CtrlPowerOn, SendsBefore(InitSends, k - 6))
        /\ op = [NoCall EXCEPT !.failed = k]
        /\ last_set = [row \in Rows |-> [col \in Cols |-> -1]]
        /\ slept = IF k <= 12 THEN << <<0, 1000>> >> ELSE InitSleeps

\* a driver was returned by the constructor
Constructed == ~(op.name = "init" /\ op.failed > 0)

\* (a variant of the failing refresh that tries the failed write once more)
RefreshFailsRetries(k) ==
    LET full == SendAll(RefreshSends(Take(refresh_loc, (k + 11) \div 12),
                                     ddram_map, ddram_value), backlight)
    IN /\ bus' = Append(Take(full, k), full[k])
       /\ ctrl' = CtrlAll(ctrl, SendsBefore(
                      RefreshSends(Take(refresh_loc, (k + 11) \div 12),
                                   ddram_map, ddram_value), k))
       /\ op' = [Call("refresh") EXCEPT !.failed = k]
       /\ slept' = << >>
       /\ UNCHANGED <<backlight, ddram_map, cursor_loc, ddram_value, refresh_loc,
                      last_set>>

\* (a variant of the failing refresh that drops each entry once it is written)
RefreshFailsDropsWritten(k) ==
    LET full == SendAll(RefreshSends(Take(refresh_loc, (k + 11) \div 12),
                                     ddram_map, ddram_value), backlight)
    IN /\ bus' = Take(full, k)
       /\ ctrl' = CtrlAll(ctrl, SendsBefore(
                      RefreshSends(Take(refresh_loc, (k + 11) \div 12),
                                   ddram_map, ddram_value), k))
       /\ refresh_loc' = Drop(refresh_loc, (k - 1) \div 12)
       /\ op' = [Call("refresh") EXCEPT !.failed = k]
       /\ slept' = << >>
       /\ UNCHANGED <<backlight, ddram_map, cursor_loc, ddram_value, last_set>>

\* refresh raising on its k-th bus write: the loop is left, and
\* self.refresh_loc.clear() after the loop is not reached (the writes are
\* worked out from the entries the loop got to)
RefreshFails(k) ==
    LET full == SendAll(RefreshSends(Take(refresh_loc, (k + 11) \div 12),
                                     ddram_map, ddram_value), backlight)
    IN /\ bus' = Take(full, k)
       /\ ctrl' = CtrlAll(ctrl, SendsBefore(
                      RefreshSends(Take(refresh_loc, (k + 11) \div 12),
                                   ddram_map, ddram_value), k))
       /\ op' = [Call("refresh") EXCEPT !.failed = k]
       /\ slept' = << >>
       /\ UNCHANGED <<backlight, ddram_map, cursor_loc, ddram_value, refresh_loc,
                      last_set>>

\* clear_display raising on its k-th bus write: the cursor, the list and the
\* sleep come after the send and are not reached
ClearDisplayFails(k) ==
    /\ bus' = Take(SendAll(ClearDisplaySends, backlight), k)
    /\ op' = [Call("clear_display") EXCEPT !.failed = k]
    /\ slept' = << >>
    /\ UNCHANGED <<backlight, ddram_map, cursor_loc, ddram_value, refresh_loc,
                   ctrl, last_set>>

\* return_home raising on its k-th bus write
ReturnHomeFails(k) ==
    /\ bus' = Take(SendAll(ReturnHomeSends, backlight), k)
    /\ op' = [Call("return_home") EXCEPT !.failed = k]
    /\ slept' = << >>
    /\ UNCHANGED <<backlight, ddram_map, cursor_loc, ddram_value, refresh_loc,
                   ctrl, last_set>>

\* set_backlight raising on its k-th bus write: self.backlight is already set
SetBacklightFails(enable, k) ==
    /\ backlight' = BacklightOf(enable)
    /\ bus' = Take(SendAll(SetBacklightSends, backlight'), k)
    /\ op' = [Call("set_backlight") EXCEPT !.enable = enable, !.failed = k]
    /\ slept' = << >>
    /\ UNCHANGED <<ddram_map, cursor_loc, ddram_value, refresh_loc, ctrl,
                   last_set>>

NextFail ==
    \/ Constructed /\ \E in \in FailInputs : SetRow(in[1], in[2])
    \/ Constructed /\ Refresh
    \/ Constructed /\ ClearDisplay
    \/ Constructed /\ ReturnHome
    \/ Constructed /\ \E enable \in BOOLEAN : SetBacklight(enable)
    \/ Constructed /\ \E k \in FailPoints(Len(refresh_loc)) : RefreshFails(k)
    \/ Constructed /\ \E k \in 1 .. 6 : ClearDisplayFails(k)
    \/ Constructed /\ \E k \in 1 .. 6 : ReturnHomeFails(k)
    \/ Constructed /\ \E enable \in BOOLEAN, k \in 1 .. 6 : SetBacklightFails(enable, k)

\* the constructor returning, or raising
InitOrFails == Init \/ InitFails

SpecFail == InitOrFails /\ [][NextFail]_vars

\* the six bus writes of a command byte below 16 sent with backlight bit bl
CommandWrites(d, bl) ==
    <<bl, bl + 4, bl, 16 * d + bl, 16 * d + bl + 4, 16 * d + bl>>

\* C19: when the k-th bus write of a call raises, the call ends there: the
\* writes handed to the bus are the first k writes of the complete call, the
\* failed one is handed once, and none follows it.
C19_NoRetry ==
    /\ [](op.failed > 0 =>
            /\ Len(bus) = op.failed
            /\ op.name = "init" =>
                  bus = SubSeq(<< 8, 12, 8, 40, 44, 40, 8, 12, 8, 24, 28, 24,
                                  8, 12, 8, 200, 204, 200 >>, 1, op.failed)
            /\ op.name = "clear_display" =>
                  bus = SubSeq(CommandWrites(1, backlight), 1, op.failed)
            /\ op.name = "return_home" =>
                  bus = SubSeq(CommandWrites(2, backlight), 1, op.failed)
            /\ op.name = "set_backlight" =>
                  bus = SubSeq(CommandWrites(0, backlight), 1, op.failed))
    /\ [][op'.failed > 0 =>
        /\ op'.name = "refresh" =>
              /\ op'.failed <= 12 * Len(refresh_loc)
              /\ LET seen == Latched(bus')
                 IN /\ Len(seen) <= 2 * Len(refresh_loc)
                    /\ \A i \in DOMAIN seen :
                          LET loc == refresh_loc[(i + 1) \div 2]
                          IN seen[i] =
                                IF i % 2 = 1
                                THEN <<ddram_map[loc[1]][loc[2]], 0>>
                                ELSE <<CodeOf(ddram_value[loc[1]][loc[2]]), 1>>
        /\ op'.name # "refresh" => op'.failed <= 6
      ]_vars

\* a refresh of at least two entries that raised on its 8th write
C19_Witness ==
    /\ op.name = "refresh" /\ op.failed = 8
    /\ Len(bus) = 8
    /\ Len(refresh_loc) >= 2

\* C20: a refresh that raises leaves the list with every entry, in the same
\* order, and leaves the grid as it was; a refresh that completes after it
\* writes every entry of the list; the list is emptied by refresh only when
\* every entry has been written.
C20_AllOrNothing ==
    [][op'.name = "refresh" =>
        /\ op'.failed > 0 => refresh_loc' = refresh_loc /\ ddram_value' = ddram_value
        /\ refresh_loc' # refresh_loc =>
              /\ op'.failed = 0
              /\ refresh_loc' = << >>
              /\ Len(bus') = 12 * Len(refresh_loc)
        /\ (op.name = "refresh" /\ op.failed > 0 /\ op'.failed = 0) =>
              RefreshWritesInOrder
      ]_vars

\* a refresh of 21 entries that raised after it had written the first one
C20_Witness ==
    /\ op.name = "refresh" /\ op.failed = 13
    /\ Len(refresh_loc) = 21
    /\ refresh_loc[1] = <<0, 0>> /\ refresh_loc[21] = <<0, 0>>

====
